---- MODULE Spec2Model ----
(***************************************************************************)
(* elephantblog/views.py: the date detail view (get_queryset, get_object,  *)
(* the prepare -> render -> finalize pipeline over the entry's content     *)
(* blocks) and the category archive view's queryset.                       *)
(***************************************************************************)
EXTENDS Integers, Sequences, FiniteSets, TLC

\* ------------------------------------------------------------------ bounds
\* URL dates and the current date range over the days 0..MaxDay.
MaxDay == 1
\* A day has the instants 0..TicksPerDay-1: 0 is datetime.time.min and
\* TicksPerDay-1 is datetime.time.max, the last representable instant.
TicksPerDay == 3
\* The largest number of process-capable (and of finalize-capable) content
\* blocks attached to an entry.
MaxBlocks == 3

Days == 0..MaxDay
Ticks == 0..(TicksPerDay - 1)

\* ------------------------------------------------------------ the database
\* Entry rows: slug, publish day and instant, the flag the active() manager
\* filter keeps, the categories, and how many attached content blocks have
\* a process / a finalize method.
Entries ==
  { [id |-> 1, slug |-> "a", day |-> 1, tick |-> 0,
     is_active |-> TRUE, categories |-> {1, 2}, np |-> MaxBlocks, nf |-> MaxBlocks],
    [id |-> 2, slug |-> "b", day |-> 1, tick |-> TicksPerDay - 1,
     is_active |-> FALSE, categories |-> {1}, np |-> 1, nf |-> 0],
    [id |-> 3, slug |-> "a", day |-> 2, tick |-> 0,
     is_active |-> TRUE, categories |-> {2}, np |-> 0, nf |-> 1],
    [id |-> 4, slug |-> "a", day |-> 0, tick |-> TicksPerDay - 1,
     is_active |-> TRUE, categories |-> {}, np |-> 0, nf |-> 0],
    [id |-> 5, slug |-> "b", day |-> 2, tick |-> 1,
     is_active |-> FALSE, categories |-> {2}, np |-> 1, nf |-> 1],
    [id |-> 6, slug |-> "b", day |-> 0, tick |-> 0,
     is_active |-> FALSE, categories |-> {1}, np |-> 0, nf |-> 0] }

EntrySlugs == {"a", "b", "zz"}

\* Category rows with their translated slugs; a slug belongs to one category.
Categories ==
  { [id |-> 1, slugs |-> {"news", "neues"}],
    [id |-> 2, slugs |-> {"tech"}] }

CategorySlugs == {"news", "neues", "tech", "nope"}

EntryById(i) == CHOOSE e \in Entries : e.id = i

\* The value stored in the published_on column: an instant for a
\* DateTimeField, a day for a DateField.
Instant(day, tick) == day * TicksPerDay + tick

PublishedOn(e, field_kind) ==
  IF field_kind = "datetime" THEN Instant(e.day, e.tick) ELSE e.day

\* Entry.objects.all() and Entry.objects.active()
AllEntries == Entries

ActiveEntries == { e \in Entries : e.is_active }

\* ------------------------------------------------------------------ state
VARIABLES
  env,         \* settings and framework: USE_TZ, allow_future, the date field's
               \* type, whether dates.DateDetailView has _date_from_string
  pc,          \* position of the request being served
  view,        \* which view serves it
  req,         \* self.request (user, query string, session, URL kwargs) and today's date
  object,      \* self.object: the id of the resolved entry, 0 when unset
  lookup,      \* the date lookup get_object built
  idx,         \* process-capable blocks visited so far in prepare
  successful,  \* prepare's local
  http404,     \* prepare's local: the block whose Http404 is stored, 0 for None
  anyTrue,     \* history: some block's process returned True
  last,        \* history: what the latest process call did
  flast,       \* history: what the latest finalize call returned
  fidx,        \* finalize-capable blocks visited so far in finalize
  response,    \* the rendered response
  result,      \* what the request ended in
  qs,          \* the queryset get_queryset returned
  trace        \* history: the calls made, in order

vars == <<env, pc, view, req, object, lookup, idx, successful, http404,
          anyTrue, last, flast, fidx, response, result, qs, trace>>

Envs ==
  [ use_tz : BOOLEAN, allow_future : BOOLEAN,
    field_kind : {"datetime", "date"}, has_date_from_string : BOOLEAN ]

Sessions == {"absent", "off", "on"}

Requests ==
  [ is_authenticated : BOOLEAN, is_staff : BOOLEAN, eb_preview : BOOLEAN,
    session : Sessions, app_config : BOOLEAN,
    day : Days, slug : EntrySlugs, today : Days ]

NoRequest ==
  [ is_authenticated |-> FALSE, is_staff |-> FALSE, eb_preview |-> FALSE,
    session |-> "absent", app_config |-> FALSE,
    day |-> 0, slug |-> "zz", today |-> 0 ]

NoLookup == [op |-> "none", lo |-> 0, hi |-> 0, aware |-> FALSE]

NoResponse == [kind |-> "none", src |-> "none", by |-> 0, never_cache |-> FALSE]

NoResult ==
  [status |-> "none", src |-> "none", exc |-> "none", resp |-> NoResponse, by |-> 0]

TypeOK ==
  /\ env \in Envs
  /\ [req EXCEPT !.slug = "zz"] \in Requests
  /\ req.slug \in EntrySlugs \cup CategorySlugs
  /\ pc \in {"idle", "prepare", "render", "finalize", "done"}
  /\ view \in {"none", "detail", "category"}
  /\ object \in {0} \cup { e.id : e \in Entries }
  /\ idx \in 0..MaxBlocks
  /\ fidx \in 0..MaxBlocks
  /\ http404 \in 0..MaxBlocks
  /\ successful \in BOOLEAN
  /\ anyTrue \in BOOLEAN
  /\ result.status \in {"none", "response", "http404", "error", "queryset"}

\* ------------------------------------------------- DateDetailView.get_queryset
\* Variant: the is_staff test is missing.
DetailGetQuerysetAnyUser(r) ==
  IF r.is_authenticated /\ r.eb_preview
    THEN AllEntries
    ELSE ActiveEntries

DetailGetQueryset(r) ==
  IF r.is_authenticated /\ r.is_staff /\ r.eb_preview
    THEN AllEntries
    ELSE ActiveEntries

\* ------------------------------------------------- DateDetailView.get_object
\* Variant: the range ends at the next day's midnight instead of time.max.
DateLookupToNextMidnight(field_kind, date) ==
  IF field_kind = "datetime"
    THEN [op |-> "range", lo |-> Instant(date, 0),
          hi |-> Instant(date + 1, 0), aware |-> TRUE]
    ELSE [op |-> "exact", lo |-> date, hi |-> date, aware |-> FALSE]

\* The local _date_lookup_for_field: UTC-aware bounds from time.min to time.max
\* of the day for a DateTimeField, the date itself otherwise.
DateLookupForField(field_kind, date) ==
  IF field_kind = "datetime"
    THEN [op |-> "range", lo |-> Instant(date, 0),
          hi |-> Instant(date, TicksPerDay - 1), aware |-> TRUE]
    ELSE [op |-> "exact", lo |-> date, hi |-> date, aware |-> FALSE]

\* The framework's dates._date_lookup_for_field, used when USE_TZ is off: the
\* same bounds as naive datetimes.
FrameworkDateLookupForField(field_kind, date) ==
  IF field_kind = "datetime"
    THEN [op |-> "range", lo |-> Instant(date, 0),
          hi |-> Instant(date, TicksPerDay - 1), aware |-> FALSE]
    ELSE [op |-> "exact", lo |-> date, hi |-> date, aware |-> FALSE]

\* Whether a stored value passes the lookup: field__range is BETWEEN lo AND hi,
\* both ends included; a plain field lookup is equality.
Matches(lk, v) ==
  IF lk.op = "range" THEN lk.lo <= v /\ v <= lk.hi ELSE v = lk.lo

\* qs.filter(**lookup)
FilterByLookup(q, lk, field_kind) ==
  { e \in q : Matches(lk, PublishedOn(e, field_kind)) }

\* The lookup get_object builds for the URL date under the settings.
BuildLookup(e, date) ==
  IF e.use_tz
    THEN DateLookupForField(e.field_kind, date)
    ELSE FrameworkDateLookupForField(e.field_kind, date)

\* super(dates.BaseDetailView, self).get_object(queryset=qs): narrow by the
\* URL slug and fetch the single row; no row is not-found, several rows are
\* a MultipleObjectsReturned error.
SingleObjectGet(q, slug) ==
  LET rows == { e \in q : e.slug = slug } IN
  IF rows = {} THEN [status |-> "http404", exc |-> "Http404", obj |-> 0]
  ELSE IF Cardinality(rows) > 1
    THEN [status |-> "error", exc |-> "MultipleObjectsReturned", obj |-> 0]
  ELSE [status |-> "ok", exc |-> "none", obj |-> (CHOOSE e \in rows : TRUE).id]

\* The future-date guard of get_object.
FutureRejected(e, r) == ~e.allow_future /\ r.day > r.today

GetObject(e, r) ==
  IF e.has_date_from_string
    \* dates.DateDetailView.get_object(queryset): the unbound method is called
    \* with queryset (None) in the place of self, a TypeError
    THEN [status |-> "error", exc |-> "TypeError", obj |-> 0,
          lookup |-> NoLookup, q |-> {}]
    ELSE
      LET q == DetailGetQueryset(r) IN
      IF FutureRejected(e, r)
        \* raise Http404(_(u"Future ...") % ...): the module neither imports
        \* nor defines the name _, so building the message is a NameError
        THEN [status |-> "error", exc |-> "NameError", obj |-> 0,
              lookup |-> NoLookup, q |-> q]
        ELSE
          LET lk == BuildLookup(e, r.day)
              got == SingleObjectGet(FilterByLookup(q, lk, e.field_kind), r.slug)
          IN [status |-> got.status, exc |-> got.exc, obj |-> got.obj,
              lookup |-> lk, q |-> q]

\* ---------------------------------------------------- DateDetailView.prepare
\* What a content block's process(request, view=self) can do.
ProcessOutcomes == {"True", "False", "None", "Response", "Http404"}

\* Variant: a stored Http404 keeps a later block's response from being returned.
PrepareStepNotFoundFirst(o, i, s, h) ==
  [ successful |-> IF o \in {"True", "False"} THEN o = "True" ELSE s,
    http404    |-> IF o = "Http404" THEN i ELSE h,
    returns    |-> o = "Response" /\ h = 0 ]

\* Variant: a block's response is dropped and the loop goes on.
PrepareStepNoReturn(o, i, s, h) ==
  [ successful |-> IF o \in {"True", "False"} THEN o = "True" ELSE s,
    http404    |-> IF o = "Http404" THEN i ELSE h,
    returns    |-> FALSE ]

\* One turn of the loop for block i, from the locals successful (s) and
\* http404 (h): r in (True, False) sets successful = r; any other true r is
\* returned at once; an Http404 is stored in http404; None changes nothing.
PrepareStep(o, i, s, h) ==
  [ successful |-> IF o \in {"True", "False"} THEN o = "True" ELSE s,
    http404    |-> IF o = "Http404" THEN i ELSE h,
    returns    |-> o = "Response" ]

\* if not successful: if http404: raise http404
PrepareRaises(s, h) == ~s /\ h # 0

\* --------------------------------------------------- DateDetailView.finalize
\* What a content block's finalize(request, response) can return.
FinalizeOutcomes == {"None", "Response"}

\* Variant: a block's replacement is ignored.
FinalizeNeverReturns(o) == FALSE

\* r = content.finalize(self.request, response); if r: return r
FinalizeReturns(o) == o = "Response"

\* hasattr(self.request, "session") and
\* self.request.session.get('frontend_editing', False)
FrontendEditing(r) == r.session = "on"

\* add_never_cache_headers(response) when frontend editing is active
WithHeaders(resp, r) ==
  IF FrontendEditing(r) THEN [resp EXCEPT !.never_cache = TRUE] ELSE resp

\* ElephantblogMixin.render_to_response: the (template names, context) pair
\* inside an ApplicationContent, a rendered HttpResponse otherwise.
RenderToResponse(r) ==
  [kind |-> IF r.app_config THEN "pair" ELSE "http",
   src |-> "render", by |-> 0, never_cache |-> FALSE]

BlockResponse(src, i) ==
  [kind |-> "http", src |-> src, by |-> i, never_cache |-> FALSE]

Event(op, n) == [op |-> op, n |-> n]

\* ---------------------------------- CategoryArchiveIndexView.get_queryset
\* get_object_or_404(Category, translations__slug=slug)
GetCategoryOr404(slug) ==
  LET rows == { c \in Categories : slug \in c.slugs } IN
  IF rows = {} THEN [status |-> "http404", exc |-> "Http404", cat |-> 0]
  ELSE IF Cardinality(rows) > 1
    THEN [status |-> "error", exc |-> "MultipleObjectsReturned", cat |-> 0]
  ELSE [status |-> "ok", exc |-> "none", cat |-> (CHOOSE c \in rows : TRUE).id]

\* ElephantblogMixin.get_queryset: the active entries (the transform only
\* attaches related objects).
MixinGetQueryset == ActiveEntries

\* Variant: the category filter is applied to all entries, active or not.
CategoryGetQuerysetAll(cat) == { e \in AllEntries : cat \in e.categories }

\* queryset.filter(categories=self.category)
CategoryGetQueryset(cat) == { e \in MixinGetQueryset : cat \in e.categories }

\* ------------------------------------------------------------------ actions
Init ==
  /\ env \in Envs
  /\ pc = "idle"
  /\ view = "none"
  /\ req = NoRequest
  /\ object = 0
  /\ lookup = NoLookup
  /\ idx = 0
  /\ successful = FALSE
  /\ http404 = 0
  /\ anyTrue = FALSE
  /\ last = "none"
  /\ flast = "none"
  /\ fidx = 0
  /\ response = NoResponse
  /\ result = NoResult
  /\ qs = {}
  /\ trace = <<>>

\* DateDetailView.get up to the call of prepare: self.object = self.get_object()
Get(r) ==
  /\ pc = "idle"
  /\ LET got == GetObject(env, r) IN
     /\ view' = "detail"
     /\ req' = r
     /\ lookup' = got.lookup
     /\ qs' = got.q
     /\ object' = got.obj
     /\ IF got.status = "ok"
          THEN /\ pc' = "prepare"
               /\ result' = result
          ELSE /\ pc' = "done"
               /\ result' = [NoResult EXCEPT !.status = got.status,
                                             !.src = "get_object",
                                             !.exc = got.exc]
  /\ UNCHANGED <<env, idx, successful, http404, anyTrue, last, flast, fidx,
                 response, trace>>

\* DateDetailView.post: return self.get(request, *args, **kwargs)
Post(r) == Get(r)

\* One turn of prepare's loop over the blocks with a process method; a
\* returned response leaves prepare and get at once.
Process(o) ==
  /\ pc = "prepare"
  /\ idx < EntryById(object).np
  /\ LET step == PrepareStep(o, idx + 1, successful, http404) IN
     /\ idx' = idx + 1
     /\ trace' = Append(trace, Event("process", idx + 1))
     /\ anyTrue' = (anyTrue \/ o = "True")
     /\ last' = o
     /\ successful' = step.successful
     /\ http404' = step.http404
     /\ IF step.returns
          THEN /\ pc' = "done"
               /\ result' = [NoResult EXCEPT
                               !.status = "response", !.src = "prepare",
                               !.resp = BlockResponse("process", idx + 1)]
          ELSE UNCHANGED <<pc, result>>
  /\ UNCHANGED <<env, view, req, object, lookup, flast, fidx, response, qs>>

\* The end of prepare: re-raise the stored Http404 or return None, and then
\* get goes on to render.
PrepareEnd ==
  /\ pc = "prepare"
  /\ idx = EntryById(object).np
  /\ IF PrepareRaises(successful, http404)
       THEN /\ pc' = "done"
            /\ result' = [NoResult EXCEPT !.status = "http404", !.exc = "Http404",
                                          !.src = "prepare", !.by = http404]
       ELSE /\ pc' = "render"
            /\ result' = result
  /\ UNCHANGED <<env, view, req, object, lookup, idx, successful, http404,
                 anyTrue, last, flast, fidx, response, qs, trace>>

\* response = self.render_to_response(self.get_context_data(object=self.object))
Render ==
  /\ pc = "render"
  /\ response' = RenderToResponse(req)
  /\ trace' = Append(trace, Event("render", 0))
  /\ pc' = "finalize"
  /\ UNCHANGED <<env, view, req, object, lookup, idx, successful, http404,
                 anyTrue, last, flast, fidx, result, qs>>

\* finalize on something that is no HttpResponse: handed back as it is.
FinalizePassThrough ==
  /\ pc = "finalize"
  /\ response.kind # "http"
  /\ pc' = "done"
  /\ result' = [NoResult EXCEPT !.status = "response", !.src = "finalize",
                                !.resp = response]
  /\ UNCHANGED <<env, view, req, object, lookup, idx, successful, http404,
                 anyTrue, last, flast, fidx, response, qs, trace>>

\* One turn of finalize's loop over the blocks with a finalize method.
Finalize(o) ==
  /\ pc = "finalize"
  /\ response.kind = "http"
  /\ fidx < EntryById(object).nf
  /\ fidx' = fidx + 1
  /\ trace' = Append(trace, Event("finalize", fidx + 1))
  /\ flast' = o
  /\ IF FinalizeReturns(o)
       THEN /\ pc' = "done"
            /\ result' = [NoResult EXCEPT
                            !.status = "response", !.src = "finalize",
                            !.resp = BlockResponse("finalize", fidx + 1)]
       ELSE UNCHANGED <<pc, result>>
  /\ UNCHANGED <<env, view, req, object, lookup, idx, successful, http404,
                 anyTrue, last, response, qs>>

\* The end of finalize: the never-cache headers, then the response.
FinalizeEnd ==
  /\ pc = "finalize"
  /\ response.kind = "http"
  /\ fidx = EntryById(object).nf
  /\ response' = WithHeaders(response, req)
  /\ pc' = "done"
  /\ result' = [NoResult EXCEPT !.status = "response", !.src = "finalize",
                                !.resp = response']
  /\ UNCHANGED <<env, view, req, object, lookup, idx, successful, http404,
                 anyTrue, last, flast, fidx, qs, trace>>

\* CategoryArchiveIndexView.get_queryset for the URL's slug.
CategoryQueryset(slug) ==
  /\ pc = "idle"
  /\ LET got == GetCategoryOr404(slug) IN
     /\ view' = "category"
     /\ req' = [NoRequest EXCEPT !.slug = slug]
     /\ pc' = "done"
     /\ IF got.status = "ok"
          THEN /\ qs' = CategoryGetQueryset(got.cat)
               /\ result' = [NoResult EXCEPT !.status = "queryset",
                                             !.src = "get_queryset", !.by = got.cat]
          ELSE /\ qs' = {}
               /\ result' = [NoResult EXCEPT !.status = got.status,
                                             !.src = "get_queryset",
                                             !.exc = got.exc]
  /\ UNCHANGED <<env, object, lookup, idx, successful, http404, anyTrue, last,
                 flast, fidx, response, trace>>

\* The request is over; the next one starts from a fresh view instance.
Done ==
  /\ pc = "done"
  /\ pc' = "idle"
  /\ view' = "none"
  /\ req' = NoRequest
  /\ object' = 0
  /\ lookup' = NoLookup
  /\ idx' = 0
  /\ successful' = FALSE
  /\ http404' = 0
  /\ anyTrue' = FALSE
  /\ last' = "none"
  /\ flast' = "none"
  /\ fidx' = 0
  /\ response' = NoResponse
  /\ result' = NoResult
  /\ qs' = {}
  /\ trace' = <<>>
  /\ UNCHANGED env

Next ==
  \/ \E r \in Requests : Get(r)
  \/ \E r \in Requests : Post(r)
  \/ \E o \in ProcessOutcomes : Process(o)
  \/ PrepareEnd
  \/ Render
  \/ FinalizePassThrough
  \/ \E o \in FinalizeOutcomes : Finalize(o)
  \/ FinalizeEnd
  \/ \E slug \in CategorySlugs : CategoryQueryset(slug)
  \/ Done

Spec == Init /\ [][Next]_vars

\* ----------------------------------------------------------------- claims
StaffPreview(r) == r.is_authenticated /\ r.is_staff /\ r.eb_preview

Served == view = "detail" /\ pc # "idle"

HasEvent(op) == \E p \in DOMAIN trace : trace[p].op = op

Rank(op) == IF op = "process" THEN 1 ELSE IF op = "render" THEN 2 ELSE 3

\* C1: a detail request whose session has frontend_editing true and that ends
\* in an HTTP response returns a response with the never-cache headers added,
\* whatever the content blocks' process and finalize calls return.
C1_NeverCacheWhenEditing ==
  ( /\ view = "detail"
    /\ pc = "done"
    /\ req.session = "on"
    /\ result.status = "response"
    /\ result.resp.kind = "http" )
  => result.resp.never_cache

\* C2: for an authenticated staff user with eb_preview set, get_object returns
\* the entry matching the URL's date and slug, also when that entry is
\* inactive and when its publish date is later than the current date (stated
\* for the body of get_object that resolves the date itself).
C2_StaffPreviewReturnsEntry ==
  ( /\ Served
    /\ ~env.has_date_from_string
    /\ StaffPreview(req) )
  => \A e \in Entries :
       (e.slug = req.slug /\ e.day = req.day) => object = e.id

\* C3: when prepare ends with no block having returned a response, it raises
\* the stored not-found if and only if some block raised not-found and no
\* block returned True.
C3_ReRaiseIffNoneSucceeded ==
  ( /\ view = "detail"
    /\ object # 0
    /\ last # "Response"
    /\ pc \in {"render", "finalize", "done"} )
  => ( (pc = "done" /\ result.status = "http404" /\ result.src = "prepare")
       <=> (http404 # 0 /\ ~anyTrue) )

\* C4: when a block's process returns a response after an earlier block raised
\* not-found, the request ends with that block's response and no not-found.
C4_LaterResponseOverridesNotFound ==
  ( /\ view = "detail"
    /\ last = "Response"
    /\ http404 # 0 )
  => /\ http404 < idx
     /\ pc = "done"
     /\ result.status = "response"
     /\ result.resp = BlockResponse("process", idx)

C4_Witness ==
  /\ view = "detail"
  /\ last = "Response"
  /\ http404 = 1
  /\ idx = 3
  /\ result.resp = BlockResponse("process", 3)

\* C5: a request that is no staff preview, with allow_future off and a URL date
\* later than today, ends in not-found with no entry resolved and no content
\* block called (stated for the body of get_object that resolves the date
\* itself).
C5_FutureIsNotFound ==
  ( /\ Served
    /\ ~env.has_date_from_string
    /\ ~StaffPreview(req)
    /\ ~env.allow_future
    /\ req.day > req.today )
  => /\ pc = "done"
     /\ result.status = "http404"
     /\ object = 0
     /\ trace = <<>>

\* C6: the date lookup get_object builds for day D is, for a datetime field,
\* the inclusive range from D's first to D's last instant, matching every
\* instant of D and none of any other day; for a date field it is equality
\* with D; so an entry it resolves was published on D.
C6_DateLookupIsTheDay ==
  ( view = "detail" /\ lookup.op # "none" )
  => /\ IF env.field_kind = "datetime"
          THEN /\ lookup.op = "range"
               /\ lookup.lo = Instant(req.day, 0)
               /\ lookup.hi = Instant(req.day, TicksPerDay - 1)
               /\ \A d \in 0..(MaxDay + 1) : \A t \in Ticks :
                    Matches(lookup, Instant(d, t)) <=> d = req.day
          ELSE /\ lookup.op = "exact"
               /\ \A d \in 0..(MaxDay + 1) : Matches(lookup, d) <=> d = req.day
     /\ object # 0 => EntryById(object).day = req.day

\* An entry published at the last instant of the day is resolved through a
\* range lookup, with same-slug entries on the neighbouring days left out.
C6_Witness ==
  /\ view = "detail"
  /\ lookup.op = "range"
  /\ lookup.aware
  /\ object = 4
  /\ EntryById(4).tick = TicksPerDay - 1
  /\ \E e \in Entries : e.slug = req.slug /\ e.day = req.day + 1 /\ e.tick = 0

\* C7: for a slug of a category, CategoryArchiveIndexView.get_queryset returns
\* exactly the active entries having that category; for a slug of no category
\* it raises not-found and returns no queryset.
C7_CategoryQueryset ==
  ( view = "category" /\ pc = "done" )
  => /\ \A c \in Categories :
          req.slug \in c.slugs
          => /\ result.status = "queryset"
             /\ qs = { e \in Entries : e.is_active /\ c.id \in e.categories }
     /\ (\A c \in Categories : req.slug \notin c.slugs)
          => /\ result.status = "http404"
             /\ qs = {}

C7_Witness ==
  /\ view = "category"
  /\ result.status = "queryset"
  /\ qs # {}
  /\ \E e \in Entries : ~e.is_active /\ result.by \in e.categories /\ e \notin qs
  /\ \E e \in ActiveEntries : result.by \notin e.categories /\ e \notin qs

\* C8: within a request the calls come in the order process blocks, render,
\* finalize blocks; the first block whose process returns a response ends the
\* request with that response as it is, with no later process call, no render
\* and no finalize call; render happens only after every process block was
\* tried, none returned a response and no not-found is left to re-raise.
C8_PipelineOrder ==
  view = "detail"
  => /\ \A p \in DOMAIN trace : \A q \in DOMAIN trace :
          p < q => /\ Rank(trace[p].op) <= Rank(trace[q].op)
                   /\ ~(trace[p].op = "render" /\ trace[q].op = "render")
     /\ Len(trace) >= idx
     /\ \A p \in 1..idx : trace[p] = Event("process", p)
     /\ last = "Response"
          => /\ pc = "done"
             /\ Len(trace) = idx
             /\ result.status = "response"
             /\ result.resp = BlockResponse("process", idx)
     /\ HasEvent("render")
          => /\ idx = EntryById(object).np
             /\ last # "Response"
             /\ ~(http404 # 0 /\ ~successful)
     /\ HasEvent("finalize") => HasEvent("render")

\* A block's response ends the request while process-capable blocks and
\* finalize-capable blocks remain uncalled.
C8_Witness ==
  /\ view = "detail"
  /\ pc = "done"
  /\ last = "Response"
  /\ idx = 2
  /\ idx < EntryById(object).np
  /\ EntryById(object).nf > 0
  /\ trace = <<Event("process", 1), Event("process", 2)>>

\* C9: finalize on an HTTP response calls the finalize-capable blocks in order;
\* the first non-empty result is returned at once, with no later finalize
\* call; when no block returns one, the rendered response is returned.
C9_FirstReplacementWins ==
  ( view = "detail" /\ response.kind = "http" )
  => /\ Len(trace) = idx + 1 + fidx
     /\ \A k \in 1..fidx : trace[idx + 1 + k] = Event("finalize", k)
     /\ flast = "Response"
          => /\ pc = "done"
             /\ result.status = "response"
             /\ result.resp = BlockResponse("finalize", fidx)
     /\ (pc = "done" /\ flast # "Response")
          => /\ fidx = EntryById(object).nf
             /\ result.status = "response"
             /\ result.resp = response
             /\ result.resp.src = "render"

\* The second of three finalize-capable blocks replaces the response.
C9_Witness ==
  /\ view = "detail"
  /\ pc = "done"
  /\ flast = "Response"
  /\ fidx = 2
  /\ fidx < EntryById(object).nf
  /\ result.resp = BlockResponse("finalize", 2)

\* C10: get_queryset returns the unfiltered entries exactly when the user is
\* authenticated, is staff and eb_preview is set, and the active entries for
\* every other request; an inactive entry is resolved for no other request.
C10_InactiveOnlyForStaffPreview ==
  view = "detail"
  => /\ ~(qs \subseteq ActiveEntries)
          => (req.is_authenticated /\ req.is_staff /\ req.eb_preview)
     /\ ~env.has_date_from_string
          => qs = IF req.is_authenticated /\ req.is_staff /\ req.eb_preview
                    THEN Entries
                    ELSE { e \in Entries : e.is_active }
     /\ (object # 0 /\ ~EntryById(object).is_active)
          => (req.is_authenticated /\ req.is_staff /\ req.eb_preview)

C10_Witness ==
  /\ view = "detail"
  /\ object # 0
  /\ ~EntryById(object).is_active
  /\ qs = Entries
  /\ pc = "prepare"

====
